---- MODULE Spec2Model ----
(***************************************************************************)
(* Model of earworm's difficulty package:                                  *)
(*   earworm/difficulty/simplify.py  (three rule-based simplifications     *)
(*                                    and the batch driver simplify)       *)
(*   earworm/difficulty/analyse.py   (metric extraction and level scorer)  *)
(*                                                                         *)
(* A MIDI message is a record [type, note, velocity, tempo, time]; a track *)
(* is a sequence of messages whose time field is the delta time in ticks;  *)
(* a file is [ticks_per_beat, tracks].  Fields a message type does not     *)
(* carry are 0.                                                            *)
(*                                                                         *)
(* Specifications:                                                         *)
(*   SpecInter  the message loop of simplify_intermediate, one iteration   *)
(*              per step, the message drawn from InterMsgs                 *)
(*   SpecFn     each function applied to a whole file of FilesOf(MaxEvents)*)
(*   Spec       the batch driver simplify on a file of                     *)
(*              FilesOf(MaxDriverEvents)                                   *)
(*   SpecPar    the three strategies run on one file in any order          *)
(*   SpecScore  the scorer applied to metrics drawn from bounded sets      *)
(***************************************************************************)
EXTENDS Integers, Sequences, FiniteSets, TLC

VARIABLES
    \* ---- simplify_intermediate, message loop (SpecInter)
    i_track,        \* index of the input track being read (1-based)
    active_notes,   \* simplify.py:103, the per-track set of sounding pitches
    msg,            \* the message read by the last iteration (NoMsg: none)
    emitted,        \* the messages the last iteration appended to new_track
    sounding,       \* replay of the output so far (test_difficulty.py:123-133)
    in_time,        \* absolute time of msg in the input track (sum of deltas)
    out_time,       \* absolute time of the last message of new_track
    i_done,         \* TRUE once the function has returned
    \* ---- whole-file functions (SpecFn), driver (Spec, SpecPar)
    mid,            \* the decoded input file
    op,             \* SpecFn: the function that was applied ("none" before)
    out,            \* SpecFn: its result, [ok, value]
    again,          \* SpecFn: the result of applying it to its own output
    report,         \* SpecFn: result of analyse, [ok, scored, value]
    attempted,      \* driver: the levels whose iteration has run, in order
    attempts,       \* driver: level -> number of calls of its strategy
    files,          \* driver: level -> [saved, value], the file written
    results,        \* driver: the returned map, a set of <<level, path>>
    returned,       \* driver: TRUE once simplify has returned
    \* ---- scorer (SpecScore)
    metrics,        \* [nps, polyphony, pitch_range, hand_span]
    level,          \* result of _estimate_level (0 before the call)
    label           \* LEVEL_LABELS.get(level, "unknown") ("" before the call)

interVars == <<i_track, active_notes, msg, emitted, sounding, in_time, out_time, i_done>>
fnVars    == <<op, out, again, report>>
drvVars   == <<attempted, attempts, files, results, returned>>
scoreVars == <<metrics, level, label>>
vars      == <<interVars, mid, fnVars, drvVars, scoreVars>>

----------------------------------------------------------------------------
(* Messages *)

NoteOn(n, v, t)  == [type |-> "note_on",  note |-> n, velocity |-> v, tempo |-> 0, time |-> t]
NoteOff(n, v, t) == [type |-> "note_off", note |-> n, velocity |-> v, tempo |-> 0, time |-> t]
SetTempo(u, t)   == [type |-> "set_tempo", note |-> 0, velocity |-> 0, tempo |-> u, time |-> t]
EndOfTrack(t)    == [type |-> "end_of_track", note |-> 0, velocity |-> 0, tempo |-> 0, time |-> t]
NoMsg            == [type |-> "none", note |-> 0, velocity |-> 0, tempo |-> 0, time |-> 0]

IsNoteStart(m) == m.type = "note_on" /\ m.velocity > 0
IsNoteStop(m)  == m.type = "note_off" \/ (m.type = "note_on" /\ m.velocity = 0)
IsNoteMsg(m)   == m.type \in {"note_on", "note_off"}

\* the largest member taken for the smallest
SetMinAsMax(S) == CHOOSE x \in S : \A y \in S : x >= y

SetMin(S) == CHOOSE x \in S : \A y \in S : x <= y
SetMax(S) == CHOOSE x \in S : \A y \in S : x >= y

EmptyFile == [ticks_per_beat |-> 1, tracks |-> <<>>]

BEGINNER     == 1
INTERMEDIATE == 2
ADVANCED     == 3

----------------------------------------------------------------------------
(* simplify_intermediate *)

max_polyphony == 4

min_velocity_off_by_one == 40 - 1
min_velocity == 40

\* One iteration of the loop over a track's messages (simplify.py:105-135):
\* the active set after it and the messages it appends to new_track.
InterStep(active, m) ==
    IF m.type = "note_on" /\ m.velocity > 0
    THEN IF m.velocity < min_velocity
         THEN [active |-> active, emit |-> <<>>]
         ELSE IF Cardinality(active) >= max_polyphony
              THEN IF active # {}
                   THEN LET lowest == SetMin(active)
                        IN  IF m.note > lowest
                            THEN [active |-> (active \ {lowest}) \cup {m.note},
                                  emit   |-> <<NoteOff(lowest, 0, 0), m>>]
                            ELSE [active |-> active, emit |-> <<>>]
                   ELSE [active |-> active \cup {m.note}, emit |-> <<m>>]
              ELSE [active |-> active \cup {m.note}, emit |-> <<m>>]
    ELSE IF m.type = "note_off" \/ (m.type = "note_on" /\ m.velocity = 0)
         THEN [active |-> active \ {m.note}, emit |-> <<m>>]
         ELSE [active |-> active, emit |-> <<m>>]

\* The replay the tests run over an output: one set for the whole file,
\* a start adds its pitch, a stop removes it (test_difficulty.py:123-133).
ReplayMsg(S, m) ==
    IF IsNoteStart(m) THEN S \cup {m.note}
    ELSE IF IsNoteStop(m) THEN S \ {m.note}
    ELSE S

RECURSIVE Replay(_, _)
Replay(S, ms) == IF ms = <<>> THEN S ELSE Replay(ReplayMsg(S, Head(ms)), Tail(ms))

\* simplify_intermediate on one track: the fold of InterStep over its messages
RECURSIVE InterTrack(_, _)
InterTrack(active, track) ==
    IF track = <<>> THEN <<>>
    ELSE LET r == InterStep(active, Head(track))
         IN  r.emit \o InterTrack(r.active, Tail(track))

\* simplify_intermediate never raises: no division, no lookup
simplify_intermediate(m) ==
    [ok    |-> TRUE,
     value |-> [ticks_per_beat |-> m.ticks_per_beat,
                tracks |-> [i \in 1..Len(m.tracks) |-> InterTrack({}, m.tracks[i])]]]

----------------------------------------------------------------------------
(* Quantiser *)

\* Python's round(a / b) for a >= 0, b > 0: nearest integer, ties to even
RoundHalfEven(a, b) ==
    LET q == a \div b
        r == a % b
    IN  IF 2 * r < b THEN q
        ELSE IF 2 * r > b THEN q + 1
        ELSE IF q % 2 = 0 THEN q ELSE q + 1

\* round(tick / grid) * grid; grid = 0 raises ZeroDivisionError, which the
\* callers below test for before they evaluate this
quantise_tick(tick, grid) == RoundHalfEven(tick, grid) * grid

\* absolute time of the k-th message of a track: the sum of the deltas up to it
RECURSIVE AbsTime(_, _)
AbsTime(track, k) == IF k = 0 THEN 0 ELSE AbsTime(track, k - 1) + track[k].time

----------------------------------------------------------------------------
(* simplify_advanced *)

\* the copy appended for a note message whose quantised time is q, were the
\* quantised absolute time stored as the delta time
AdvancedCopyAbsAsDelta(m, q) == [m EXCEPT !.time = q]

\* msg.copy(time=0): quantised_time is computed and not used
AdvancedCopy(m, q) == [m EXCEPT !.time = 0]

\* the placeholder: the track is left as it is
recalculate_deltas(track, grid) == track

AdvancedTrack(track, grid) ==
    recalculate_deltas(
        [k \in 1..Len(track) |->
            IF IsNoteMsg(track[k])
            THEN AdvancedCopy(track[k], quantise_tick(AbsTime(track, k), grid))
            ELSE [track[k] EXCEPT !.time = 0]],
        grid)

simplify_advanced(m) ==
    LET tpb  == m.ticks_per_beat
        grid == tpb \div 4
    IN  IF grid = 0 /\ \E i \in 1..Len(m.tracks) :
                          \E k \in 1..Len(m.tracks[i]) : IsNoteMsg(m.tracks[i][k])
        THEN [ok |-> FALSE, value |-> EmptyFile]     \* ZeroDivisionError
        ELSE [ok    |-> TRUE,
              value |-> [ticks_per_beat |-> tpb,
                         tracks |-> [i \in 1..Len(m.tracks) |->
                                        AdvancedTrack(m.tracks[i], grid)]]]

----------------------------------------------------------------------------
(* simplify_beginner *)

DEFAULT_TEMPO == 500000    \* mido.bpm2tempo(120)
NoNote == -1               \* current_note = None

\* the (abs_time, msg) pairs of the note messages of one track
RECURSIVE TrackEvents(_, _)
TrackEvents(track, abs_time) ==
    IF track = <<>> THEN <<>>
    ELSE LET t == abs_time + Head(track).time
         IN  (IF IsNoteMsg(Head(track)) THEN << <<t, Head(track)>> >> ELSE <<>>)
             \o TrackEvents(Tail(track), t)

RECURSIVE AllEvents(_)
AllEvents(tracks) ==
    IF tracks = <<>> THEN <<>>
    ELSE TrackEvents(Head(tracks), 0) \o AllEvents(Tail(tracks))

\* key=lambda e: (e[0], -e[1].note if e[1].type == "note_on" else 0)
SortKey(e) == <<e[1], IF e[2].type = "note_on" THEN 0 - e[2].note ELSE 0>>
KeyLess(a, b) == a[1] < b[1] \/ (a[1] = b[1] /\ a[2] < b[2])

\* list.sort is stable: e goes after every element whose key is not greater
InsertEvent(sorted, e) ==
    LET n == Cardinality({k \in 1..Len(sorted) : ~KeyLess(SortKey(e), SortKey(sorted[k]))})
    IN  SubSeq(sorted, 1, n) \o <<e>> \o SubSeq(sorted, n + 1, Len(sorted))

RECURSIVE SortEvents(_)
SortEvents(es) ==
    IF es = <<>> THEN <<>>
    ELSE InsertEvent(SortEvents(SubSeq(es, 1, Len(es) - 1)), es[Len(es)])

\* grid_events[q]: the messages whose quantised time is q, in sorted order
RECURSIVE SlotMsgs(_, _, _)
SlotMsgs(es, q, grid) ==
    IF es = <<>> THEN <<>>
    ELSE (IF quantise_tick(Head(es)[1], grid) = q THEN <<Head(es)[2]>> ELSE <<>>)
         \o SlotMsgs(Tail(es), q, grid)

RECURSIVE NoteOns(_)
NoteOns(ms) ==
    IF ms = <<>> THEN <<>>
    ELSE (IF Head(ms).type = "note_on" /\ Head(ms).velocity > 0 THEN <<Head(ms)>> ELSE <<>>)
         \o NoteOns(Tail(ms))

\* the first message of lowest pitch
LowestNoteOn(ms) ==
    ms[SetMin({k \in 1..Len(ms) : \A j \in 1..Len(ms) : ms[j].note >= ms[k].note})]

\* max(note_ons, key=lambda m: m.note): the first message of highest pitch
HighestNoteOn(ms) ==
    ms[SetMin({k \in 1..Len(ms) : \A j \in 1..Len(ms) : ms[j].note <= ms[k].note})]

\* the previous note is left sounding
NeverTurnOff(current_note, delta) == <<>>

\* "Turn off previous note"
TurnOffPrevious(current_note, delta) ==
    IF current_note # NoNote THEN <<NoteOff(current_note, 0, delta)>> ELSE <<>>

Min2(a, b) == IF a < b THEN a ELSE b

\* one iteration of  for q_time in sorted(grid_events.keys())
BeginnerSlot(st, q_time, msgs) ==
    LET note_ons == NoteOns(msgs)
    IN  IF note_ons = <<>> THEN st
        ELSE LET highest == HighestNoteOn(note_ons)
                 delta   == q_time - st.last_time
                 off     == TurnOffPrevious(st.current_note, delta)
                 delta2  == IF st.current_note # NoNote THEN 0 ELSE delta
             IN  [current_note |-> highest.note,
                  last_time    |-> q_time,
                  track        |-> st.track \o off \o
                                   <<NoteOn(highest.note, Min2(highest.velocity, 100), delta2)>>]

RECURSIVE BeginnerSlots(_, _, _, _)
BeginnerSlots(st, slots, es, grid) ==
    IF slots = {} THEN st
    ELSE LET q == SetMin(slots)
         IN  BeginnerSlots(BeginnerSlot(st, q, SlotMsgs(es, q, grid)), slots \ {q}, es, grid)

\* the tempo of the first set_tempo message in track order, else 120 BPM
RECURSIVE FindTempoIn(_)
FindTempoIn(ms) ==
    IF ms = <<>> THEN DEFAULT_TEMPO
    ELSE IF Head(ms).type = "set_tempo" THEN Head(ms).tempo ELSE FindTempoIn(Tail(ms))

RECURSIVE Concat(_)
Concat(tracks) == IF tracks = <<>> THEN <<>> ELSE Head(tracks) \o Concat(Tail(tracks))

find_tempo(m) == FindTempoIn(Concat(m.tracks))

\* simplify_beginner never raises for ticks_per_beat > 0: grid = tpb
simplify_beginner(m) ==
    LET tpb    == m.ticks_per_beat
        grid   == tpb
        events == SortEvents(AllEvents(m.tracks))
        slots  == {quantise_tick(events[k][1], grid) : k \in 1..Len(events)}
        st     == BeginnerSlots([current_note |-> NoNote, last_time |-> 0, track |-> <<>>],
                                slots, events, grid)
        close  == IF st.current_note # NoNote
                  THEN <<NoteOff(st.current_note, 0, grid)>> ELSE <<>>
        slower_tempo == (find_tempo(m) * 5) \div 4      \* int(original_tempo * 1.25)
        tempo_track  == <<SetTempo(slower_tempo, 0), EndOfTrack(0)>>
        melody_track == st.track \o close \o <<EndOfTrack(0)>>
    IN  [ok    |-> TRUE,
         value |-> [ticks_per_beat |-> tpb, tracks |-> <<tempo_track, melody_track>>]]

----------------------------------------------------------------------------
(* analyse.py *)

\* A float is modelled as an exact fraction <<numerator, denominator>>,
\* denominator > 0; every value met within the bounds is exact in a double.
RatLess(a, b) == a[1] * b[2] < b[1] * a[2]
RatIsZero(a)  == a[1] = 0

LEVEL_LABELS ==
    [l \in 1..10 |->
        CASE l = 1 -> "beginner"      [] l = 2 -> "beginner+"
          [] l = 3 -> "easy"          [] l = 4 -> "easy+"
          [] l = 5 -> "intermediate"  [] l = 6 -> "intermediate+"
          [] l = 7 -> "advanced"      [] l = 8 -> "advanced+"
          [] l = 9 -> "expert"        [] l = 10 -> "concert"]

\* LEVEL_LABELS.get(level, "unknown")
LabelOf(l) == IF l \in DOMAIN LEVEL_LABELS THEN LEVEL_LABELS[l] ELSE "unknown"

\* the average truncated towards zero, int(score / 4)
TruncatedAverage(score) == score \div 4

\* round(score / 4)
RoundedAverage(score) == RoundHalfEven(score, 4)

Max2(a, b) == IF a > b THEN a ELSE b

estimate_level(nps, polyphony, pitch_range, hand_span) ==
    LET s1 == IF RatLess(nps, <<2, 1>>) THEN 1
              ELSE IF RatLess(nps, <<4, 1>>) THEN 3
              ELSE IF RatLess(nps, <<7, 1>>) THEN 5
              ELSE IF RatLess(nps, <<10, 1>>) THEN 7
              ELSE 9
        s2 == IF RatLess(polyphony, <<3, 2>>) THEN 1
              ELSE IF RatLess(polyphony, <<5, 2>>) THEN 3
              ELSE IF RatLess(polyphony, <<4, 1>>) THEN 5
              ELSE 8
        s3 == IF pitch_range < 24 THEN 1
              ELSE IF pitch_range < 36 THEN 3
              ELSE IF pitch_range < 48 THEN 5
              ELSE 7
        s4 == IF hand_span < 8 THEN 1
              ELSE IF hand_span < 12 THEN 3
              ELSE IF hand_span < 15 THEN 5
              ELSE 7
        score == s1 + s2 + s3 + s4
    IN  Max2(1, Min2(10, RoundedAverage(score)))

\* the end time in ticks of the longest track
EndTicks(m) ==
    IF m.tracks = <<>> THEN 0
    ELSE SetMax({AbsTime(m.tracks[i], Len(m.tracks[i])) : i \in 1..Len(m.tracks)})

\* mido's MidiFile.length in seconds, for a file whose tempo stays at the
\* default 500000 us per beat (every set_tempo of the model carries it):
\* ticks * tempo * 1e-6 / ticks_per_beat
MidiLength(m) == <<EndTicks(m) * DEFAULT_TEMPO, m.ticks_per_beat * 1000000>>

\* the (abs_time, note) pairs of the note-on messages with velocity > 0
RECURSIVE TrackOnsets(_, _)
TrackOnsets(track, abs_time) ==
    IF track = <<>> THEN <<>>
    ELSE LET t == abs_time + Head(track).time
         IN  (IF Head(track).type = "note_on" /\ Head(track).velocity > 0
              THEN << <<t, Head(track).note>> >> ELSE <<>>)
             \o TrackOnsets(Tail(track), t)

RECURSIVE AllOnsets(_)
AllOnsets(tracks) ==
    IF tracks = <<>> THEN <<>>
    ELSE TrackOnsets(Head(tracks), 0) \o AllOnsets(Tail(tracks))

ZeroReport ==
    [level |-> 0, label |-> "", notes_per_second |-> <<0, 1>>, avg_polyphony |-> <<0, 1>>,
     pitch_range |-> 0, max_hand_span |-> 0, total_notes |-> 0, duration_seconds |-> <<0, 1>>]
NoReport == [ok |-> FALSE, scored |-> FALSE, value |-> ZeroReport]

\* the early return is taken only when both conditions hold
DegenerateBoth(note_events, duration) == note_events = <<>> /\ RatIsZero(duration)

\* if not note_events or duration == 0
Degenerate(note_events, duration) == note_events = <<>> \/ RatIsZero(duration)

\* result: ok (FALSE: an exception left analyse), scored (the call of
\* _estimate_level at line 119 was made), value (the DifficultyReport)
analyse(m) ==
    LET duration    == MidiLength(m)
        note_events == AllOnsets(m.tracks)
    IN  IF Degenerate(note_events, duration)
        THEN [ok |-> TRUE, scored |-> FALSE,
              value |-> [level |-> 1, label |-> "beginner",
                         notes_per_second |-> <<0, 1>>, avg_polyphony |-> <<0, 1>>,
                         pitch_range |-> 0, max_hand_span |-> 0, total_notes |-> 0,
                         duration_seconds |-> duration]]
        ELSE IF note_events = <<>>
        THEN NoReport                                  \* max() of an empty list
        ELSE
        LET total_notes == Len(note_events)
            \* total_notes / max(duration, 0.1)
            floor_dur   == IF RatLess(duration, <<1, 10>>) THEN <<1, 10>> ELSE duration
            notes_per_second == <<total_notes * floor_dur[2], floor_dur[1]>>
            pitches     == {note_events[k][2] : k \in 1..Len(note_events)}
            pitch_range == SetMax(pitches) - SetMin(pitches)
            tpb         == m.ticks_per_beat
            window      == tpb \div 8
        IN  IF window = 0
            THEN NoReport                              \* ZeroDivisionError in t // window
            ELSE
            LET bucket(k)  == note_events[k][1] \div window
                keys       == {bucket(k) : k \in 1..Len(note_events)}
                notesIn(b) == {k \in 1..Len(note_events) : bucket(k) = b}
                \* sum(polyphonies) / len(polyphonies)
                avg_polyphony == <<total_notes, Cardinality(keys)>>
                span(b)    == LET ps == {note_events[k][2] : k \in notesIn(b)}
                              IN  IF Cardinality(notesIn(b)) > 1
                                  THEN SetMax(ps) - SetMin(ps) ELSE 0
                max_span   == SetMax({0} \cup {span(b) : b \in keys})
                lvl        == estimate_level(notes_per_second, avg_polyphony,
                                             pitch_range, max_span)
            IN  [ok |-> TRUE, scored |-> TRUE,
                 value |-> [level |-> lvl, label |-> LabelOf(lvl),
                            notes_per_second |-> notes_per_second,
                            avg_polyphony |-> avg_polyphony,
                            pitch_range |-> pitch_range, max_hand_span |-> max_span,
                            total_notes |-> total_notes,
                            duration_seconds |-> duration]]

----------------------------------------------------------------------------
(* Idle values of the variables a specification does not use *)

NoResult  == [ok |-> FALSE, value |-> EmptyFile]

InterIdle ==
    /\ i_track = 0 /\ active_notes = {} /\ msg = NoMsg
    /\ emitted = <<>> /\ sounding = {} /\ i_done = FALSE
    /\ in_time = 0 /\ out_time = 0
FnIdle ==
    /\ op = "none" /\ out = NoResult /\ again = NoResult /\ report = NoReport
DrvIdle ==
    /\ attempted = <<>> /\ attempts = [l \in {BEGINNER, INTERMEDIATE, ADVANCED} |-> 0]
    /\ files = [l \in {BEGINNER, INTERMEDIATE, ADVANCED} |-> [saved |-> FALSE, value |-> EmptyFile]]
    /\ results = {} /\ returned = FALSE
ScoreIdle ==
    /\ metrics = [nps |-> <<0, 1>>, polyphony |-> <<0, 1>>, pitch_range |-> 0, hand_span |-> 0]
    /\ level = 0 /\ label = ""

----------------------------------------------------------------------------
(* SpecInter: the message loop of simplify_intermediate *)

MaxInterTracks == 2
MaxInterDelta  == 1
MaxInterTime   == 1     \* largest absolute time read in a track

InterPitches    == {48, 52, 55, 60, 64, 67}
InterVelocities == {0, 39, 40}

InterMsgs ==
    {NoteOn(n, v, t) : n \in InterPitches, v \in InterVelocities, t \in 0..MaxInterDelta}
    \cup {NoteOff(n, 0, t) : n \in InterPitches, t \in 0..MaxInterDelta}
    \cup {SetTempo(500000, t) : t \in 0..MaxInterDelta}

InitInter ==
    /\ InterIdle
    /\ mid = EmptyFile
    /\ FnIdle /\ DrvIdle /\ ScoreIdle

\* for track in mid.tracks: new_track = MidiTrack(); active_notes = set()
InterNextTrack ==
    /\ ~i_done
    /\ i_track < MaxInterTracks
    /\ i_track' = i_track + 1
    /\ active_notes' = {}
    /\ msg' = NoMsg
    /\ emitted' = <<>>
    /\ in_time' = 0
    /\ out_time' = 0
    /\ UNCHANGED <<sounding, i_done>>
    /\ UNCHANGED <<mid, fnVars, drvVars, scoreVars>>

\* for msg in track: one iteration
InterProcess ==
    /\ ~i_done
    /\ i_track >= 1
    /\ \E m \in InterMsgs :
         LET r == InterStep(active_notes, m)
         IN  /\ in_time + m.time <= MaxInterTime
             /\ msg' = m
             /\ active_notes' = r.active
             /\ emitted' = r.emit
             /\ sounding' = Replay(sounding, r.emit)
             /\ in_time' = in_time + m.time
             /\ out_time' = out_time + AbsTime(r.emit, Len(r.emit))
    /\ UNCHANGED <<i_track, i_done>>
    /\ UNCHANGED <<mid, fnVars, drvVars, scoreVars>>

\* return output
InterReturn ==
    /\ ~i_done
    /\ i_done' = TRUE
    /\ msg' = NoMsg
    /\ emitted' = <<>>
    /\ UNCHANGED <<i_track, active_notes, sounding, in_time, out_time>>
    /\ UNCHANGED <<mid, fnVars, drvVars, scoreVars>>

NextInter == InterNextTrack \/ InterProcess \/ InterReturn

SpecInter == InitInter /\ [][NextInter]_vars

----------------------------------------------------------------------------
(* The input files of the whole-file specifications *)

MaxTracks       == 2     \* tracks of a file
MaxEvents       == 3     \* messages of a file, all tracks together
MaxDriverEvents == 2     \* the same, for the files given to the driver
FileDelta       == 3     \* the non-zero delta time

\* the notes of the files: a quiet low one and a loud high one
FileNotes    == {<<60, 30>>, <<67, 110>>}
FileDeltas   == {0, FileDelta}
TicksPerBeat == {2, 8}

FileMsgs ==
    {NoteOn(n[1], n[2], t) : n \in FileNotes, t \in FileDeltas}
    \cup {NoteOff(60, 0, t) : t \in FileDeltas}
    \cup {SetTempo(DEFAULT_TEMPO, 0)}

SeqsUpTo(S, n) == UNION {[1..k -> S] : k \in 0..n}

\* the lists of exactly k tracks holding at most n messages together
RECURSIVE TrackLists(_, _)
TrackLists(k, n) ==
    IF k = 0 THEN {<<>>}
    ELSE UNION {{<<a>> \o rest : rest \in TrackLists(k - 1, n - Len(a))} :
                    a \in SeqsUpTo(FileMsgs, n)}

FilesOf(n) ==
    {[ticks_per_beat |-> tpb, tracks |-> ts] :
        tpb \in TicksPerBeat, ts \in UNION {TrackLists(k, n) : k \in 0..MaxTracks}}


----------------------------------------------------------------------------
(* SpecFn: each function applied to a whole file *)

InitFn ==
    /\ mid \in FilesOf(MaxEvents)
    /\ InterIdle /\ FnIdle /\ DrvIdle /\ ScoreIdle

ApplyBeginner ==
    /\ op = "none"
    /\ op' = "beginner"
    /\ out' = simplify_beginner(mid)
    /\ UNCHANGED <<again, report>>
    /\ UNCHANGED <<interVars, mid, drvVars, scoreVars>>

ApplyIntermediate ==
    /\ op = "none"
    /\ op' = "intermediate"
    /\ out' = simplify_intermediate(mid)
    /\ UNCHANGED <<again, report>>
    /\ UNCHANGED <<interVars, mid, drvVars, scoreVars>>

ApplyAdvanced ==
    /\ op = "none"
    /\ op' = "advanced"
    /\ out' = simplify_advanced(mid)
    /\ UNCHANGED <<again, report>>
    /\ UNCHANGED <<interVars, mid, drvVars, scoreVars>>

\* simplify_advanced applied to its own output
ReapplyAdvanced ==
    /\ op = "advanced"
    /\ out.ok
    /\ op' = "advanced_twice"
    /\ again' = simplify_advanced(out.value)
    /\ UNCHANGED <<out, report>>
    /\ UNCHANGED <<interVars, mid, drvVars, scoreVars>>

ApplyAnalyse ==
    /\ op = "none"
    /\ op' = "analyse"
    /\ report' = analyse(mid)
    /\ UNCHANGED <<out, again>>
    /\ UNCHANGED <<interVars, mid, drvVars, scoreVars>>

NextFn ==
    ApplyBeginner \/ ApplyIntermediate \/ ApplyAdvanced \/ ReapplyAdvanced \/ ApplyAnalyse

SpecFn == InitFn /\ [][NextFn]_vars

----------------------------------------------------------------------------
(* SpecScore: the scorer on metrics drawn from bounded sets *)

MaxNpsHalves      == 21    \* notes per second up to 10.5, in halves
MaxPolyHalves     == 9     \* polyphony up to 4.5, in halves
MaxPitchRange     == 49
MaxHandSpan       == 16

InitScore ==
    /\ metrics \in [nps         : {<<n, 2>> : n \in 0..MaxNpsHalves},
                    polyphony   : {<<n, 2>> : n \in 0..MaxPolyHalves},
                    pitch_range : 0..MaxPitchRange,
                    hand_span   : 0..MaxHandSpan]
    /\ level = 0 /\ label = ""
    /\ mid = EmptyFile
    /\ InterIdle /\ FnIdle /\ DrvIdle

\* analyse.py:119-123: level = _estimate_level(...); label = LEVEL_LABELS.get(...)
Estimate ==
    /\ level = 0
    /\ level' = estimate_level(metrics.nps, metrics.polyphony,
                               metrics.pitch_range, metrics.hand_span)
    /\ label' = LabelOf(level')
    /\ UNCHANGED metrics
    /\ UNCHANGED <<interVars, mid, fnVars, drvVars>>

NextScore == Estimate

SpecScore == InitScore /\ [][NextScore]_vars

----------------------------------------------------------------------------
(* Spec: the batch driver simplify; SpecPar: its iterations in any order *)

Levels == {BEGINNER, INTERMEDIATE, ADVANCED}

\* levels = {BEGINNER: ("beginner", ...), INTERMEDIATE: ..., ADVANCED: ...}
LevelName(l) ==
    CASE l = BEGINNER -> "beginner"
      [] l = INTERMEDIATE -> "intermediate"
      [] l = ADVANCED -> "advanced"

StrategyOf(l, m) ==
    CASE l = BEGINNER -> simplify_beginner(m)
      [] l = INTERMEDIATE -> simplify_intermediate(m)
      [] l = ADVANCED -> simplify_advanced(m)

Stem == "song"     \* midi_path.stem

\* output_dir / f"{stem}_{name}.mid"
OutputPath(name) == <<"output_dir", Stem, "_", name, ".mid">>

\* the input file after simplify_advanced, had it zeroed the delta times of
\* the messages in place instead of on copies
InputAfterInPlace(l, m) ==
    IF l = ADVANCED
    THEN [m EXCEPT !.tracks = [i \in 1..Len(m.tracks) |->
                                  [k \in 1..Len(m.tracks[i]) |->
                                      [m.tracks[i][k] EXCEPT !.time = 0]]]]
    ELSE m

\* the input file after a strategy has run on it: every strategy reads the
\* messages and appends copies (msg.copy) or new messages to new tracks
InputAfter(l, m) == m

\* the loop is left at the first failure
StopsAfterFailure == FALSE

\* except Exception: the failure is printed and the loop goes on
ContinuesAfterFailure == TRUE

Attempted == {attempted[k] : k \in 1..Len(attempted)}

\* one iteration of  for level, (name, func) in levels.items()
Iteration(l) ==
    /\ ~returned
    /\ l \notin Attempted
    /\ attempted' = Append(attempted, l)
    /\ attempts' = [attempts EXCEPT ![l] = @ + 1]
    /\ mid' = InputAfter(l, mid)
    /\ LET simplified == StrategyOf(l, mid)
       IN  \E save_ok \in BOOLEAN :
             IF simplified.ok /\ save_ok
             THEN /\ files' = [files EXCEPT ![l] = [saved |-> TRUE, value |-> simplified.value]]
                  /\ results' = results \cup {<<l, OutputPath(LevelName(l))>>}
                  /\ UNCHANGED returned
             ELSE /\ UNCHANGED <<files, results>>
                  /\ returned' = ~ContinuesAfterFailure
    /\ UNCHANGED <<interVars, fnVars, scoreVars>>

\* return results
DriverReturn ==
    /\ ~returned
    /\ Attempted = Levels
    /\ returned' = TRUE
    /\ UNCHANGED <<attempted, attempts, files, results, mid>>
    /\ UNCHANGED <<interVars, fnVars, scoreVars>>

Init ==
    /\ mid \in FilesOf(MaxDriverEvents)
    /\ InterIdle /\ FnIdle /\ DrvIdle /\ ScoreIdle

\* a dict iterates in insertion order: BEGINNER, INTERMEDIATE, ADVANCED
DriverIteration ==
    \E l \in Levels : (\A k \in Levels \ Attempted : l <= k) /\ Iteration(l)

Next == DriverIteration \/ DriverReturn

Spec == Init /\ [][Next]_vars

AnyIteration == \E l \in Levels : Iteration(l)

NextPar == AnyIteration \/ DriverReturn

SpecPar == Init /\ [][NextPar]_vars

----------------------------------------------------------------------------
(* Claims checked under SpecInter *)

\* C1: replaying the note-starts and note-stops of the Intermediate output,
\* the set of sounding pitches never has more than 4 members, for any
\* number of tracks.
C1_PolyphonyAtMost4 == Cardinality(sounding) <= 4

\* C3: a note-start with velocity in 1..39 is discarded: the iteration that
\* reads it appends nothing and leaves the active set as it was, and no
\* iteration appends a note-start (velocity > 0) with velocity < 40.
C3_QuietNotesDiscarded ==
    [][ /\ \A k \in 1..Len(emitted') :
             IsNoteStart(emitted'[k]) => emitted'[k].velocity >= 40
        /\ (msg'.type = "note_on" /\ msg'.velocity \in 1..39)
             => (emitted' = <<>> /\ active_notes' = active_notes
                 /\ sounding' = sounding) ]_vars

\* a quiet note-start was read while other notes were sounding
C3_Witness ==
    /\ msg.type = "note_on" /\ msg.velocity = 39
    /\ emitted = <<>>
    /\ active_notes # {}
    /\ msg.note \notin active_notes

\* C11: a note-stop is emitted only if its pitch is in the active set when
\* the stop is read: none for a pitch whose start was discarded, none a
\* second time for a pitch already stopped by eviction.
C11_StopOnlyIfActive ==
    [][ (IsNoteStop(msg') /\ emitted' # <<>>) => msg'.note \in active_notes ]_vars

\* C12: a note-start with velocity >= 40 read while the active set holds 4
\* pitches either evicts exactly the lowest active pitch and is admitted
\* (its pitch is above the lowest) or is discarded with the active set
\* unchanged (its pitch is not above the lowest); of the six starts
\* 48, 52, 55, 60, 64, 67 the fifth evicts 48 and the sixth evicts 52.
C12_EvictLowest ==
    [][ (IsNoteStart(msg') /\ msg'.velocity >= 40 /\ Cardinality(active_notes) = 4) =>
          LET low == CHOOSE p \in active_notes : \A q \in active_notes : p <= q
          IN  /\ msg'.note > low =>
                    /\ active_notes' = (active_notes \ {low}) \cup {msg'.note}
                    /\ Len(emitted') = 2
                    /\ emitted'[1].type = "note_off" /\ emitted'[1].note = low
                    /\ emitted'[2] = msg'
              /\ msg'.note <= low =>
                    /\ active_notes' = active_notes
                    /\ emitted' = <<>>
              /\ (active_notes = {48, 52, 55, 60} /\ msg'.note = 64) => emitted'[1].note = 48
              /\ (active_notes = {52, 55, 60, 64} /\ msg'.note = 67) => emitted'[1].note = 52 ]_vars

\* the sixth start, 67, has evicted 52
C12_Witness ==
    /\ IsNoteStart(msg) /\ msg.note = 67
    /\ Len(emitted) = 2 /\ emitted[1] = NoteOff(52, 0, 0)
    /\ active_notes = {55, 60, 64, 67}

\* C13: the stop synthesized by an eviction has the same absolute time in
\* the output as the note-start admitted with it, whatever the delta time
\* of that note-start.
C13_EvictionZeroGap ==
    (Len(emitted) = 2 /\ IsNoteStart(msg)) =>
        LET start_abs == out_time
            stop_abs  == out_time - emitted[2].time
        IN  stop_abs = start_abs

\* C14: every message kept has the absolute time in the output track that
\* it has in the input track, also after discarded note-starts that
\* carried a delta time.
C14_KeptTimesPreserved ==
    (msg # NoMsg /\ emitted # <<>>) => out_time = in_time

----------------------------------------------------------------------------
(* Claims checked under SpecFn *)

\* the positions <<track, index>> of the messages of a file
Positions(m) == UNION {{<<i, k>> : k \in 1..Len(m.tracks[i])} : i \in 1..Len(m.tracks)}
MsgAt(m, p) == m.tracks[p[1]][p[2]]

\* the count the test keeps while it replays an output
\* (test_difficulty.py:90-100): the largest number of notes sounding
RECURSIVE MaxActive(_, _, _)
MaxActive(ms, active, max_active) ==
    IF ms = <<>> THEN max_active
    ELSE LET a == IF IsNoteStart(Head(ms)) THEN active + 1
                  ELSE IF IsNoteStop(Head(ms)) THEN Max2(0, active - 1)
                  ELSE active
         IN  MaxActive(Tail(ms), a, Max2(max_active, a))

\* C2: the Beginner output is monophonic: replayed in order, the count of
\* sounding notes is never above 1, and every note-start after the first
\* directly follows the stop of the note started before it.
C2_BeginnerMonophonic ==
    op = "beginner" =>
        LET ms     == Concat(out.value.tracks)
            starts == {k \in 1..Len(ms) : IsNoteStart(ms[k])}
        IN  /\ out.ok
            /\ MaxActive(ms, 0, 0) <= 1
            /\ \A k \in starts :
                 LET before == {j \in starts : j < k}
                 IN  before # {} =>
                       /\ IsNoteStop(ms[k - 1])
                       /\ ms[k - 1].note = ms[SetMax(before)].note

\* two notes were started in the Beginner output
C2_Witness ==
    /\ op = "beginner"
    /\ Cardinality({k \in 1..Len(out.value.tracks[2]) :
                       IsNoteStart(out.value.tracks[2][k])}) >= 2

\* the note-starts of a file as <<absolute time, pitch>>
InputStarts(m) ==
    {<<AbsTime(m.tracks[p[1]], p[2]), MsgAt(m, p).note>> :
        p \in {q \in Positions(m) : IsNoteStart(MsgAt(m, q))}}

\* the note-starts whose absolute time quantises to slot q
StartsInSlot(m, q) ==
    {e \in InputStarts(m) : quantise_tick(e[1], m.ticks_per_beat) = q}

\* C4: for every grid slot that holds at least one note-start (all tracks
\* together) the Beginner output has exactly one note-start at the slot's
\* time, of the highest pitch started in the slot; there is no other
\* note-start in the output.
C4_BeginnerHighestPerSlot ==
    op = "beginner" =>
        LET slots  == {quantise_tick(e[1], mid.ticks_per_beat) : e \in InputStarts(mid)}
            o      == out.value
            starts == {p \in Positions(o) : IsNoteStart(MsgAt(o, p))}
        IN  /\ Cardinality(starts) = Cardinality(slots)
            /\ {<<AbsTime(o.tracks[p[1]], p[2]), MsgAt(o, p).note>> : p \in starts}
                 = {<<q, SetMax({e[2] : e \in StartsInSlot(mid, q)})>> : q \in slots}

\* a slot holds starts of two pitches coming from two tracks, and another
\* slot holds a note-stop only
C4_Witness ==
    /\ op = "beginner"
    /\ Len(mid.tracks) = 2
    /\ \E a \in InputStarts([mid EXCEPT !.tracks = <<mid.tracks[1]>>]) :
       \E b \in InputStarts([mid EXCEPT !.tracks = <<mid.tracks[2]>>]) :
          /\ a[2] # b[2]
          /\ a[1] # b[1]
          /\ quantise_tick(a[1], mid.ticks_per_beat) = quantise_tick(b[1], mid.ticks_per_beat)
    /\ \E p \in Positions(mid) :
          /\ MsgAt(mid, p).type = "note_off"
          /\ StartsInSlot(mid, quantise_tick(AbsTime(mid.tracks[p[1]], p[2]),
                                             mid.ticks_per_beat)) = {}

\* C5: Advanced simplification applied to its own output returns a file
\* equal to that output.
C5_AdvancedIdempotent ==
    op = "advanced_twice" => (again.ok /\ again.value = out.value)

\* the input held a note message with a non-zero delta time
C5_Witness ==
    /\ op = "advanced_twice"
    /\ Cardinality({p \in Positions(mid) :
                      IsNoteMsg(MsgAt(mid, p)) /\ MsgAt(mid, p).time > 0}) >= 2

\* C6: in the Advanced output every note-start and note-stop has the
\* absolute time its input absolute time quantises to on the grid
\* ticksPerBeat / 4.
C6_AdvancedTimesQuantised ==
    (op \in {"advanced", "advanced_twice"} /\ out.ok) =>
        \A p \in Positions(mid) :
            IsNoteMsg(MsgAt(mid, p)) =>
                AbsTime(out.value.tracks[p[1]], p[2])
                  = quantise_tick(AbsTime(mid.tracks[p[1]], p[2]), mid.ticks_per_beat \div 4)

NoOnsets(m)     == \A p \in Positions(m) : ~IsNoteStart(MsgAt(m, p))
ZeroDuration(m) == \A p \in Positions(m) : MsgAt(m, p).time = 0

\* C7 as stated: with no onset or with duration 0, analyse returns level 1,
\* totalNotes 0 and every numeric field 0, durationSeconds included,
\* without calling the scorer.
C7_DegenerateAllZero ==
    (op = "analyse" /\ (NoOnsets(mid) \/ ZeroDuration(mid))) =>
        /\ report.ok /\ ~report.scored
        /\ report.value.level = 1
        /\ report.value.total_notes = 0
        /\ RatIsZero(report.value.notes_per_second)
        /\ RatIsZero(report.value.avg_polyphony)
        /\ report.value.pitch_range = 0
        /\ report.value.max_hand_span = 0
        /\ RatIsZero(report.value.duration_seconds)

\* C7 amended: with no onset or with duration 0, analyse returns level 1,
\* label "beginner", totalNotes 0 and the four metrics 0 without calling
\* the scorer; durationSeconds is the duration of the input, which is 0
\* exactly when no message has a non-zero delta time.
C7_DegenerateReport ==
    (op = "analyse" /\ (NoOnsets(mid) \/ ZeroDuration(mid))) =>
        /\ report.ok /\ ~report.scored
        /\ report.value.level = 1
        /\ report.value.label = "beginner"
        /\ report.value.total_notes = 0
        /\ RatIsZero(report.value.notes_per_second)
        /\ RatIsZero(report.value.avg_polyphony)
        /\ report.value.pitch_range = 0
        /\ report.value.max_hand_span = 0
        /\ report.value.duration_seconds[1] * mid.ticks_per_beat * 2
             = EndTicks(mid) * report.value.duration_seconds[2]
        /\ RatIsZero(report.value.duration_seconds) <=> ZeroDuration(mid)

\* a file without onsets that lasts some time was analysed
C7_Witness ==
    /\ op = "analyse"
    /\ NoOnsets(mid) /\ ~ZeroDuration(mid)
    /\ report.ok

\* the note-stop that ends the note started at position k of a track: the
\* first later stop of the same pitch (0: none)
StopOf(track, k) ==
    LET later == {j \in (k + 1)..Len(track) :
                    IsNoteStop(track[j]) /\ track[j].note = track[k].note}
    IN  IF later = {} THEN 0 ELSE CHOOSE j \in later : \A i \in later : j <= i

\* the starts of the notes of a track that last less than 30 ms once their
\* two ends are quantised: ticks * tempo / ticks_per_beat < 30000 us
ShortNotes(m, i) ==
    LET track == m.tracks[i]
        grid  == m.ticks_per_beat \div 4
    IN  {k \in 1..Len(track) :
            /\ IsNoteStart(track[k])
            /\ StopOf(track, k) # 0
            /\ (quantise_tick(AbsTime(track, StopOf(track, k)), grid)
                  - quantise_tick(AbsTime(track, k), grid)) * find_tempo(m)
                 < 30000 * m.ticks_per_beat}

NoteStartsOf(track) == {k \in 1..Len(track) : IsNoteStart(track[k])}

\* C15: the Advanced output holds the notes that last at least 30 ms after
\* quantisation and none of the shorter ones.
C15_AdvancedDropsShortNotes ==
    (op \in {"advanced", "advanced_twice"} /\ out.ok) =>
        \A i \in 1..Len(mid.tracks) :
            Cardinality(NoteStartsOf(out.value.tracks[i]))
              = Cardinality(NoteStartsOf(mid.tracks[i]) \ ShortNotes(mid, i))

\* C16: with ticksPerBeat > 0 no strategy calls the quantiser with grid 0:
\* neither Advanced (grid ticksPerBeat / 4) nor Beginner (grid
\* ticksPerBeat) fails on a division by zero.
C16_GridNeverZero ==
    (op \in {"advanced", "beginner"} /\ mid.ticks_per_beat > 0) => out.ok

\* the onsets of a file as <<track, index>> positions, and the bucket of
\* an onset: floor(onset / (ticksPerBeat / 8))
OnsetPositions(m) == {p \in Positions(m) : IsNoteStart(MsgAt(m, p))}
BucketOf(m, p) == (AbsTime(m.tracks[p[1]], p[2]) * 8) \div m.ticks_per_beat

\* C17: for an input with an onset and a non-zero duration, totalNotes is
\* the number of onsets, avgPolyphony is totalNotes over the number of
\* non-empty buckets, and maxHandSpan is the largest pitch spread of a
\* bucket holding more than one note (0 without such a bucket).
C17_BucketMetrics ==
    (op = "analyse" /\ ~NoOnsets(mid) /\ ~ZeroDuration(mid)) =>
        LET ons     == OnsetPositions(mid)
            buckets == {BucketOf(mid, p) : p \in ons}
            inB(b)  == {p \in ons : BucketOf(mid, p) = b}
            spread(b) == LET ps == {MsgAt(mid, p).note : p \in inB(b)}
                         IN  (CHOOSE x \in ps : \A y \in ps : x >= y)
                               - (CHOOSE x \in ps : \A y \in ps : x <= y)
            spans   == {spread(b) : b \in {c \in buckets : Cardinality(inB(c)) > 1}}
        IN  /\ report.ok
            /\ report.value.total_notes = Cardinality(ons)
            /\ report.value.avg_polyphony[1] * Cardinality(buckets)
                 = Cardinality(ons) * report.value.avg_polyphony[2]
            /\ report.value.max_hand_span
                 = (IF spans = {} THEN 0 ELSE CHOOSE x \in spans : \A y \in spans : x >= y)

\* C18: analyse returns a report, without raising, for every file with
\* ticksPerBeat > 0, an onset and a non-zero duration.
C18_AnalyseNeverRaises ==
    (op = "analyse" /\ mid.ticks_per_beat > 0 /\ ~NoOnsets(mid) /\ ~ZeroDuration(mid)) =>
        report.ok

----------------------------------------------------------------------------
(* Claims checked under SpecScore *)

\* the sub-scores read from the breakpoint tables, lower bound inclusive
NpsScore(x) ==
    IF x[1] >= 10 * x[2] THEN 9 ELSE IF x[1] >= 7 * x[2] THEN 7
    ELSE IF x[1] >= 4 * x[2] THEN 5 ELSE IF x[1] >= 2 * x[2] THEN 3 ELSE 1
PolyphonyScore(x) ==
    IF x[1] >= 4 * x[2] THEN 8 ELSE IF 2 * x[1] >= 5 * x[2] THEN 5
    ELSE IF 2 * x[1] >= 3 * x[2] THEN 3 ELSE 1
PitchRangeScore(x) ==
    IF x >= 48 THEN 7 ELSE IF x >= 36 THEN 5 ELSE IF x >= 24 THEN 3 ELSE 1
HandSpanScore(x) ==
    IF x >= 15 THEN 7 ELSE IF x >= 12 THEN 5 ELSE IF x >= 8 THEN 3 ELSE 1

TableSum(mt) ==
    NpsScore(mt.nps) + PolyphonyScore(mt.polyphony)
      + PitchRangeScore(mt.pitch_range) + HandSpanScore(mt.hand_span)

\* n is round(s / 4): the integer nearest to s / 4, the even one of the two
\* when s / 4 lies half way between them
IsRounded(n, s) ==
    \/ 4 * n - s \in {-1, 0, 1}
    \/ (4 * n - s \in {-2, 2} /\ n % 2 = 0)

\* C8: the level is round(s / 4) clamped to 1..10, s the sum of the four
\* sub-scores of the tables; it is an integer in 1..10 and the label is the
\* entry of the ten-entry table for it, never the fallback.
C8_LevelFromTables ==
    level # 0 =>
        LET s == TableSum(metrics)
        IN  /\ level \in 1..10
            /\ \E n \in 0..12 :
                 /\ IsRounded(n, s)
                 /\ level = (IF n < 1 THEN 1 ELSE IF n > 10 THEN 10 ELSE n)
            /\ label = LEVEL_LABELS[level]
            /\ label # "unknown"

\* the sum 18 lies half way between levels 4 and 5 and was scored 4
C8_Witness ==
    /\ level = 4
    /\ TableSum(metrics) = 18
    /\ label = "easy+"

\* C19: every level of the scale is reachable: for each level in 1..10
\* some combination of the four metrics is scored with that level.  The
\* metrics range past the last breakpoint of every table, so every
\* combination of sub-scores is tried; stated of the states in which the
\* scorer has returned.
C19_AllLevelsReachable ==
    level # 0 =>
    \A l \in 1..10 :
        \E a \in 0..MaxNpsHalves, b \in 0..MaxPolyHalves,
           c \in 0..MaxPitchRange, d \in 0..MaxHandSpan :
            estimate_level(<<a, 2>>, <<b, 2>>, c, d) = l

----------------------------------------------------------------------------
(* Claims checked under Spec and SpecPar *)

ResultLevels == {r[1] : r \in results}

\* C9: simplify runs each strategy exactly once; a strategy that fails in
\* the transform or in the save is absent from the returned map and the
\* others still run; the map holds exactly the levels written, each with
\* the path <stem>_<levelname>.
C9_DriverPartialSuccess ==
    /\ \A l \in Levels : attempts[l] = (IF l \in Attempted THEN 1 ELSE 0)
    /\ returned => \A l \in Levels : attempts[l] = 1
    /\ results = {<<l, <<"output_dir", Stem, "_", LevelName(l), ".mid">> >> :
                     l \in {k \in Levels : files[k].saved}}
    /\ \A l \in Attempted : ~StrategyOf(l, mid).ok => l \notin ResultLevels
    /\ ResultLevels \subseteq Attempted

\* simplify has returned a map without the advanced level, whose transform
\* raised, and without the beginner level, whose save failed
C9_Witness ==
    /\ returned
    /\ ~simplify_advanced(mid).ok
    /\ ResultLevels = {INTERMEDIATE}

====
